---- MODULE Spec2Model ----
(***************************************************************************)
(* A model of urllib3.contrib.unix: HTTP over Unix domain sockets.         *)
(*   UnixHTTPConnection          a connection that opens an AF_UNIX socket *)
(*   UnixHTTPConnectionPool      a pool for one socket path                *)
(*   UnixHostHTTPConnectionPool  the same pool, addressed by (host, port)  *)
(*   UnixHTTPPoolManager         registers the scheme "http+unix"          *)
(*                                                                         *)
(* Python values: a str is a sequence of one-character strings; None, the  *)
(* timeouts and the ports are tags ("None", "5", "81") so that values of   *)
(* different Python types can sit in one set.                              *)
(***************************************************************************)
EXTENDS Integers, Sequences, FiniteSets, TLC

VARIABLES
    pool,             \* the connection pool object (cls "none": not yet constructed)
    num_connections,  \* pool.num_connections
    nthreads,         \* how many threads call pool._new_conn(), once each
    pc,               \* pc[t]: the position of thread t inside pool._new_conn()
    tmp,              \* tmp[t]: the value thread t loaded for num_connections + 1
    ret,              \* ret[t]: what pool._new_conn() returned to t (index in conns)
    log,              \* the records handed to log.debug, in emission order
    conns,            \* every UnixHTTPConnection object constructed so far
    str_out,          \* the value of str(pool), once taken
    pool_args,        \* the arguments the pool's constructor was called with
    fs,               \* environment: what is at each socket path
    gdt,              \* environment: socket.getdefaulttimeout()
    socks,            \* every socket object created so far
    opc,              \* the position inside UnixHTTPConnection._new_conn()
    ocur,             \* the connection (index in conns) whose _new_conn() runs
    oresult,          \* how the last _new_conn() call ended
    ohist,            \* the socket calls of the running or last _new_conn() call
    mgr_args,         \* the arguments UnixHTTPPoolManager() was called with
    mgr_pc,           \* the position inside UnixHTTPPoolManager.__init__
    mgr,              \* what PoolManager.__init__ stored: num_pools, headers, pool kw
    pool_classes_by_scheme,  \* manager.pool_classes_by_scheme: scheme -> pool class
    key_fn_by_scheme,        \* manager.key_fn_by_scheme: scheme -> function object
    pools,            \* manager.pools: <<key, pool>> entries, least recently used first
    mpool,            \* every pool object the manager created, by identity
    nreq,             \* the number of requests dispatched
    last              \* the last request and its outcome

poolVars == <<pool, num_connections, nthreads, pc, tmp, ret, log, conns, str_out, pool_args>>
openVars == <<fs, gdt, socks, opc, ocur, oresult, ohist>>
mgrVars == <<mgr_args, mgr_pc, mgr, pool_classes_by_scheme, key_fn_by_scheme, pools,
             mpool, nreq, last>>

-----------------------------------------------------------------------------
(* Bounds *)

MaxThreads == 2
MaxLen == 3
MaxOpens == 2
MaxPools == 2
MaxRequests == 3

Threads == 1..MaxThreads

(* Python's None *)
None == "None"
(* util.connection.SOCKET_GLOBAL_DEFAULT_TIMEOUT: a unique sentinel object *)
SOCKET_GLOBAL_DEFAULT_TIMEOUT == "GLOBAL_DEFAULT"

Chars == {"a", "/", " ", "'", "\"", "\\", "\n"}

RECURSIVE SeqsUpTo(_, _)
SeqsUpTo(S, n) ==
    IF n = 0 THEN {<<>>}
    ELSE LET shorter == SeqsUpTo(S, n - 1)
         IN  shorter \cup {Append(s, c) : s \in {x \in shorter : Len(x) = n - 1}, c \in S}

(* every str of at most MaxLen characters *)
AllPaths == SeqsUpTo(Chars, MaxLen)
(* the socket paths of the runs that do not look inside the path *)
SomePaths == {<<"/", "a">>, <<"/", "b">>}
Ports == {None, "81", "82"}
TimeoutValues == {SOCKET_GLOBAL_DEFAULT_TIMEOUT, None, "0", "5"}
(* socket_options: None, or a list of options for setsockopt *)
OptionValues == {None, <<>>, <<"SO_KEEPALIVE">>}
(* **conn_kw: the socket options, and whether it holds a keyword the
   connection class does not take *)
ConnKw == [socket_options : OptionValues, unexpected : BOOLEAN]

NoPool == [cls |-> "none", socket_path |-> <<>>, host |-> <<>>, timeout |-> None,
           conn_kw |-> None]
NoArgs == [host |-> <<>>, port |-> "absent"]

-----------------------------------------------------------------------------
(* class UnixHTTPConnection *)

(* a variant that opens its socket in the constructor *)
UnixHTTPConnectionEager(socket_path, timeout, socket_options) ==
    [socket_path |-> socket_path, host |-> "localhost", timeout |-> timeout,
     socket_options |-> socket_options, default_port |-> None, sock |-> "socket"]

(* UnixHTTPConnection.__init__(socket_path, **kwargs): keeps the path and
   passes the fake host "localhost" and the keyword arguments to HTTPConnection;
   no socket is created here. *)
UnixHTTPConnection(socket_path, timeout, socket_options) ==
    [socket_path |-> socket_path, host |-> "localhost", timeout |-> timeout,
     socket_options |-> socket_options, default_port |-> None, sock |-> None]

-----------------------------------------------------------------------------
(* class UnixHTTPConnectionPool *)

(* UnixHTTPConnectionPool.__init__(socket_path, **conn_kw) *)
UnixHTTPConnectionPool(cls, socket_path, timeout, conn_kw) ==
    [cls |-> cls, socket_path |-> socket_path, host |-> socket_path, timeout |-> timeout,
     conn_kw |-> conn_kw]

(* a variant that makes the port part of the address *)
UnixHostPortPool(host, port, timeout, conn_kw) ==
    UnixHTTPConnectionPool("UnixHostHTTPConnectionPool",
                           IF port = None THEN host ELSE host \o <<":", port>>,
                           timeout, conn_kw)

(* UnixHostHTTPConnectionPool.__init__(host, port=None, **conn_kw):
   port is not passed on. *)
UnixHostHTTPConnectionPool(host, port, timeout, conn_kw) ==
    UnixHTTPConnectionPool("UnixHostHTTPConnectionPool", host, timeout, conn_kw)

(* a variant that takes the read timeout of the policy *)
read_timeout(timeout) == timeout.read

(* Timeout.connect_timeout of the pool's timeout object *)
connect_timeout(timeout) == timeout.connect

NewUnixPool(paths) ==
    /\ pool.cls = "none"
    /\ \E p \in paths, c \in TimeoutValues, kw \in ConnKw :
          /\ pool' = UnixHTTPConnectionPool("UnixHTTPConnectionPool", p,
                                            [connect |-> c, read |-> None], kw)
          /\ pool_args' = [host |-> p, port |-> "absent"]
    /\ num_connections' = 0
    /\ UNCHANGED <<nthreads, pc, tmp, ret, log, conns, str_out>>
    /\ UNCHANGED <<openVars, mgrVars>>

NewUnixHostPool(paths) ==
    /\ pool.cls = "none"
    /\ \E h \in paths, port \in Ports \cup {"absent"}, c \in TimeoutValues,
          kw \in ConnKw :
          /\ pool' = UnixHostHTTPConnectionPool(h, IF port = "absent" THEN None ELSE port,
                                                [connect |-> c, read |-> None], kw)
          /\ pool_args' = [host |-> h, port |-> port]
    /\ num_connections' = 0
    /\ UNCHANGED <<nthreads, pc, tmp, ret, log, conns, str_out>>
    /\ UNCHANGED <<openVars, mgrVars>>

(* str as a sequence of characters *)
Name(cls) ==
    IF cls = "UnixHTTPConnectionPool"
    THEN <<"U", "n", "i", "x", "H", "T", "T", "P", "C", "o", "n", "n", "e", "c", "t", "i", "o", "n", "P", "o", "o", "l">>
    ELSE <<"U", "n", "i", "x", "H", "o", "s", "t">> \o
         <<"H", "T", "T", "P", "C", "o", "n", "n", "e", "c", "t", "i", "o", "n", "P", "o", "o", "l">>

RECURSIVE Flatten(_)
Flatten(ss) == IF ss = <<>> THEN <<>> ELSE Head(ss) \o Flatten(Tail(ss))

Contains(s, c) == \E i \in 1..Len(s) : s[i] = c

(* Python's repr(s) of a str: the quote is ' unless s has a ' and no ";
   a backslash and the chosen quote are escaped with a backslash, a newline is
   written \n, every other printable character stands for itself. *)
ReprQuote(s) == IF Contains(s, "'") /\ ~Contains(s, "\"") THEN "\"" ELSE "'"

ReprChar(c, q) ==
    IF c = "\\" \/ c = q THEN <<"\\", c>>
    ELSE IF c = "\n" THEN <<"\\", "n">>
    ELSE <<c>>

repr(s) ==
    LET q == ReprQuote(s)
    IN  <<q>> \o Flatten([i \in 1..Len(s) |-> ReprChar(s[i], q)]) \o <<q>>

(* "{}(socket_path={})".format(...): the path as it is *)
StrVerbatim(self) ==
    Name(self.cls) \o <<"(", "s", "o", "c", "k", "e", "t", "_", "p", "a", "t", "h", "=">> \o self.socket_path \o <<")">>

(* UnixHTTPConnectionPool.__str__:
   "{}(socket_path={!r})".format(type(self).__name__, self.socket_path) *)
Str(self) ==
    Name(self.cls) \o <<"(", "s", "o", "c", "k", "e", "t", "_", "p", "a", "t", "h", "=">> \o repr(self.socket_path) \o <<")">>

PoolStr ==
    /\ pool.cls # "none"
    /\ str_out = <<>>
    /\ str_out' = Str(pool)
    /\ UNCHANGED <<pool, num_connections, nthreads, pc, tmp, ret, log, conns, pool_args>>
    /\ UNCHANGED <<openVars, mgrVars>>

(* UnixHTTPConnectionPool._new_conn, statement by statement.
   "self.num_connections += 1" is a load, an add and a store of the attribute,
   and another thread can run between the load and the store. *)
NewConnLoad(t) ==
    /\ pool.cls # "none"
    /\ t <= nthreads
    /\ pc[t] = "start"
    /\ tmp' = [tmp EXCEPT ![t] = num_connections + 1]
    /\ pc' = [pc EXCEPT ![t] = "loaded"]
    /\ UNCHANGED <<pool, num_connections, nthreads, ret, log, conns, str_out, pool_args>>
    /\ UNCHANGED <<openVars, mgrVars>>

NewConnStore(t) ==
    /\ pc[t] = "loaded"
    /\ num_connections' = tmp[t]
    /\ pc' = [pc EXCEPT ![t] = "stored"]
    /\ UNCHANGED <<pool, nthreads, tmp, ret, log, conns, str_out, pool_args>>
    /\ UNCHANGED <<openVars, mgrVars>>

(* log.debug("Starting new HTTP connection (%d): %s", self.num_connections,
   self.socket_path): the counter is read again here. *)
NewConnLog(t) ==
    /\ pc[t] = "stored"
    /\ log' = Append(log, [thread |-> t, count |-> num_connections,
                           socket_path |-> pool.socket_path])
    /\ pc' = [pc EXCEPT ![t] = "logged"]
    /\ UNCHANGED <<pool, num_connections, nthreads, tmp, ret, conns, str_out, pool_args>>
    /\ UNCHANGED <<openVars, mgrVars>>

(* conn = self.ConnectionCls(socket_path=..., timeout=..., **self.conn_kw);
   return conn. The call raises TypeError for a keyword the class does not
   take, and _new_conn ends with that exception. *)
NewConnReturn(t) ==
    /\ pc[t] = "logged"
    /\ IF pool.conn_kw.unexpected
       THEN /\ pc' = [pc EXCEPT ![t] = "raised"]
            /\ UNCHANGED <<conns, ret>>
       ELSE /\ conns' = Append(conns, UnixHTTPConnection(pool.socket_path,
                                                         connect_timeout(pool.timeout),
                                                         pool.conn_kw.socket_options))
            /\ ret' = [ret EXCEPT ![t] = Len(conns) + 1]
            /\ pc' = [pc EXCEPT ![t] = "done"]
    /\ UNCHANGED <<pool, num_connections, nthreads, tmp, log, str_out, pool_args>>
    /\ UNCHANGED <<openVars, mgrVars>>

(* A caller constructs a UnixHTTPConnection itself, without a pool. *)
NewConnection ==
    /\ pool.cls = "none"
    /\ conns = <<>>
    /\ \E p \in SomePaths, c \in TimeoutValues \cup {"-1"}, o \in OptionValues :
          conns' = <<UnixHTTPConnection(p, c, o)>>
    /\ UNCHANGED <<pool, num_connections, nthreads, pc, tmp, ret, log, str_out, pool_args>>
    /\ UNCHANGED <<openVars, mgrVars>>

(* The socket library, as UnixHTTPConnection._new_conn uses it.
   A socket object: its kernel state, the options and the timeout set on it,
   the address connect was called with (<<>>: not called), the peer it is
   connected to (<<>>: none), and who still refers to it: "frame" (the local
   variable of the running call), "caller" (it was returned) or "garbage"
   (the call raised and nothing refers to it). *)
NewSocket(c) ==
    [family |-> "AF_UNIX", type |-> "SOCK_STREAM", state |-> "open",
     options |-> <<>>, timeout |-> gdt, addr |-> <<>>, peer |-> <<>>,
     ref |-> "frame", conn |-> c]

(* what is at an address: nothing, at a path the environment does not know *)
What(addr) == IF addr \in DOMAIN fs THEN fs[addr] ELSE "missing"

(* the exceptions of sock.connect(address), by what is at the address: a
   listening peer accepts; a peer that does not accept in time lets a blocking
   socket wait, a socket with a timeout time out, a non-blocking one give up *)
ConnectError(what, timeout) ==
    CASE what = "missing" -> "FileNotFoundError"
      [] what = "refused" -> "ConnectionRefusedError"
      [] what = "denied"  -> "PermissionError"
      [] what = "slow" /\ timeout = "0" -> "BlockingIOError"
      [] what = "slow" /\ timeout # "0" -> "TimeoutError"
      [] OTHER -> "none"

(* the exception classes that report a failed connection establishment *)
ConnectFailures == {"FileNotFoundError", "ConnectionRefusedError", "PermissionError"}

(* a variant that reports every failure of a socket call as one error *)
RaisedAsOne(exc) == "NewConnectionError"

(* How an exception of a socket call leaves _new_conn: the code has no
   try/except around the calls, the exception propagates as it is. *)
Raised(exc) == exc

(* line 29: sock = socket.socket(socket.AF_UNIX, socket.SOCK_STREAM) *)
OpenSocket ==
    /\ opc = "idle"
    /\ Len(socks) < MaxOpens
    /\ \E c \in 1..Len(conns) :
          /\ ocur' = c
          /\ socks' = Append(socks, NewSocket(c))
    /\ opc' = "created"
    /\ oresult' = "none"
    /\ ohist' = <<"socket">>
    /\ UNCHANGED <<fs, gdt>>
    /\ UNCHANGED <<poolVars, mgrVars>>

(* line 32: _set_socket_options(sock, self.socket_options): nothing for None,
   else one sock.setsockopt call for each option; a setsockopt can fail. *)
OpenSetOptions ==
    /\ opc = "created"
    /\ LET o == conns[ocur].socket_options
           k == Len(socks)
       IN  \/ /\ o = None
              /\ opc' = "options"
              /\ UNCHANGED <<socks, oresult, ohist>>
           \/ /\ o # None
              /\ socks' = [socks EXCEPT ![k].options = o]
              /\ opc' = "options"
              /\ ohist' = ohist \o [i \in 1..Len(o) |-> "setsockopt"]
              /\ UNCHANGED oresult
           \/ /\ o # None
              /\ \E n \in 1..Len(o) :
                    /\ socks' = [socks EXCEPT ![k].options = SubSeq(o, 1, n - 1),
                                              ![k].ref = "garbage"]
                    /\ ohist' = ohist \o [i \in 1..n |-> "setsockopt"]
              /\ opc' = "raised"
              /\ oresult' = Raised("OSError")
    /\ UNCHANGED <<fs, gdt, ocur>>
    /\ UNCHANGED <<poolVars, mgrVars>>

(* a variant that tests the timeout for truth: None and 0 are not applied *)
OpenSetTimeoutIfTrue ==
    /\ opc = "options"
    /\ LET t == conns[ocur].timeout
           k == Len(socks)
       IN  IF t \in {SOCKET_GLOBAL_DEFAULT_TIMEOUT, None, "0"}
           THEN /\ opc' = "timeout"
                /\ UNCHANGED <<socks, oresult, ohist>>
           ELSE IF t = "-1"
           THEN /\ socks' = [socks EXCEPT ![k].ref = "garbage"]
                /\ ohist' = Append(ohist, "settimeout")
                /\ opc' = "raised"
                /\ oresult' = Raised("ValueError")
           ELSE /\ socks' = [socks EXCEPT ![k].timeout = t]
                /\ ohist' = Append(ohist, "settimeout")
                /\ opc' = "timeout"
                /\ UNCHANGED oresult
    /\ UNCHANGED <<fs, gdt, ocur>>
    /\ UNCHANGED <<poolVars, mgrVars>>

(* lines 34-35: if self.timeout is not SOCKET_GLOBAL_DEFAULT_TIMEOUT:
   sock.settimeout(self.timeout); a negative timeout is a ValueError. *)
OpenSetTimeout ==
    /\ opc = "options"
    /\ LET t == conns[ocur].timeout
           k == Len(socks)
       IN  IF t = SOCKET_GLOBAL_DEFAULT_TIMEOUT
           THEN /\ opc' = "timeout"
                /\ UNCHANGED <<socks, oresult, ohist>>
           ELSE IF t = "-1"
           THEN /\ socks' = [socks EXCEPT ![k].ref = "garbage"]
                /\ ohist' = Append(ohist, "settimeout")
                /\ opc' = "raised"
                /\ oresult' = Raised("ValueError")
           ELSE /\ socks' = [socks EXCEPT ![k].timeout = t]
                /\ ohist' = Append(ohist, "settimeout")
                /\ opc' = "timeout"
                /\ UNCHANGED oresult
    /\ UNCHANGED <<fs, gdt, ocur>>
    /\ UNCHANGED <<poolVars, mgrVars>>

(* a variant that calls connect a second time when the first call fails *)
OpenConnectRetry ==
    /\ opc = "timeout"
    /\ LET k == Len(socks)
           addr == conns[ocur].socket_path
           exc == ConnectError(What(addr), socks[k].timeout)
       IN  /\ ~(What(addr) = "slow" /\ socks[k].timeout = None)
           /\ IF exc = "none"
              THEN /\ socks' = [socks EXCEPT ![k].addr = addr, ![k].peer = addr,
                                              ![k].ref = "caller"]
                   /\ ohist' = Append(ohist, "connect")
                   /\ opc' = "returned"
                   /\ oresult' = "socket"
              ELSE /\ socks' = [socks EXCEPT ![k].addr = addr, ![k].ref = "garbage"]
                   /\ ohist' = ohist \o <<"connect", "connect">>
                   /\ opc' = "raised"
                   /\ oresult' = Raised(exc)
    /\ UNCHANGED <<fs, gdt, ocur>>
    /\ UNCHANGED <<poolVars, mgrVars>>

(* lines 36-37: sock.connect(self.socket_path); return sock.
   No step while a blocking socket waits for a peer that never accepts. *)
OpenConnect ==
    /\ opc = "timeout"
    /\ LET k == Len(socks)
           addr == conns[ocur].socket_path
           exc == ConnectError(What(addr), socks[k].timeout)
       IN  /\ ~(What(addr) = "slow" /\ socks[k].timeout = None)
           /\ ohist' = Append(ohist, "connect")
           /\ IF exc = "none"
              THEN /\ socks' = [socks EXCEPT ![k].addr = addr, ![k].peer = addr,
                                              ![k].ref = "caller"]
                   /\ opc' = "returned"
                   /\ oresult' = "socket"
              ELSE /\ socks' = [socks EXCEPT ![k].addr = addr, ![k].ref = "garbage"]
                   /\ opc' = "raised"
                   /\ oresult' = Raised(exc)
    /\ UNCHANGED <<fs, gdt, ocur>>
    /\ UNCHANGED <<poolVars, mgrVars>>

(* the caller has the outcome; _new_conn() can be called again *)
OpenEnd ==
    /\ opc \in {"returned", "raised"}
    /\ Len(socks) < MaxOpens
    /\ opc' = "idle"
    /\ UNCHANGED <<fs, gdt, socks, ocur, oresult, ohist>>
    /\ UNCHANGED <<poolVars, mgrVars>>

(* The interpreter finalizes a socket object nothing refers to, at a time of
   its choosing, and the finalizer closes the socket. *)
Collect ==
    /\ \E k \in 1..Len(socks) :
          /\ socks[k].ref = "garbage"
          /\ socks[k].state = "open"
          /\ socks' = [socks EXCEPT ![k].state = "closed"]
    /\ UNCHANGED <<fs, gdt, opc, ocur, oresult, ohist>>
    /\ UNCHANGED <<poolVars, mgrVars>>

-----------------------------------------------------------------------------
(* class UnixHTTPPoolManager *)

SetItem(d, k, v) == [x \in DOMAIN d \cup {k} |-> IF x = k THEN v ELSE d[x]]

NoKw == [timeout |-> SOCKET_GLOBAL_DEFAULT_TIMEOUT]
NoLast == [scheme |-> "", host |-> <<>>, port |-> None, result |-> "none", pool |-> 0,
           created |-> FALSE]

(* the URLs of the requests: scheme, host (for "http+unix" the percent-encoded
   socket path) and port *)
MgrHosts == {<<"%", "2", "F", "a">>, <<"%", "2", "F", "b">>}
Urls == [scheme : {"http", "http+unix", "ftp"}, host : MgrHosts, port : Ports]

(* UnixHostHTTPConnectionPool.scheme *)
scheme == "http+unix"

(* The generic PoolManager after its __init__: the registries hold "http" and
   "https", each with a key function object of its own; no pool yet. *)
BasePoolClasses == [s \in {"http", "https"} |->
                       IF s = "http" THEN "HTTPConnectionPool" ELSE "HTTPSConnectionPool"]
BaseKeyFns == [s \in {"http", "https"} |->
                  [id |-> IF s = "http" THEN 1 ELSE 2, code |-> "key_normalizer"]]

(* a variant that does not pass num_pools on: the generic default is used *)
SuperArgsDefaultPools(num_pools, headers, connection_pool_kw) ==
    [num_pools |-> 10, headers |-> headers, connection_pool_kw |-> connection_pool_kw]

(* line 107: super().__init__(num_pools=num_pools, headers=headers,
   **connection_pool_kw) *)
SuperArgs(num_pools, headers, connection_pool_kw) ==
    [num_pools |-> num_pools, headers |-> headers,
     connection_pool_kw |-> connection_pool_kw]

(* lines 108-110: self.pool_classes_by_scheme[scheme] = UnixHostHTTPConnectionPool *)
RegisterPoolClass(classes) == SetItem(classes, scheme, "UnixHostHTTPConnectionPool")

(* a variant that leaves the key functions as they are *)
RegisterNoKeyFn(fns) == fns

(* a variant that registers a new function object with the same code *)
RegisterKeyFnCopy(fns) == SetItem(fns, scheme, [id |-> 3, code |-> fns["http"].code])

(* lines 111-113: self.key_fn_by_scheme[scheme] = self.key_fn_by_scheme["http"] *)
RegisterKeyFn(fns) == SetItem(fns, scheme, fns["http"])

MgrNew ==
    /\ mgr_pc = "new"
    /\ mgr = [num_pools |-> 0, headers |-> None, connection_pool_kw |-> NoKw]
    /\ pool_classes_by_scheme = <<>>
    /\ key_fn_by_scheme = <<>>
    /\ pools = <<>>
    /\ mpool = <<>>
    /\ nreq = 0
    /\ last = NoLast

MgrSuperInit ==
    /\ mgr_pc = "new"
    /\ mgr' = SuperArgs(mgr_args.num_pools, mgr_args.headers, mgr_args.connection_pool_kw)
    /\ pool_classes_by_scheme' = BasePoolClasses
    /\ key_fn_by_scheme' = BaseKeyFns
    /\ pools' = <<>>
    /\ mgr_pc' = "base"
    /\ UNCHANGED <<mgr_args, mpool, nreq, last>>
    /\ UNCHANGED <<poolVars, openVars>>

MgrRegisterPoolClass ==
    /\ mgr_pc = "base"
    /\ pool_classes_by_scheme' = RegisterPoolClass(pool_classes_by_scheme)
    /\ mgr_pc' = "classes"
    /\ UNCHANGED <<mgr_args, mgr, key_fn_by_scheme, pools, mpool, nreq, last>>
    /\ UNCHANGED <<poolVars, openVars>>

MgrRegisterKeyFn ==
    /\ mgr_pc = "classes"
    /\ key_fn_by_scheme' = RegisterKeyFn(key_fn_by_scheme)
    /\ mgr_pc' = "ready"
    /\ UNCHANGED <<mgr_args, mgr, pool_classes_by_scheme, pools, mpool, nreq, last>>
    /\ UNCHANGED <<poolVars, openVars>>

(* The generic dispatch of PoolManager, as the design describes it. *)

(* the key a key function object computes: scheme, host and port *)
PoolKey(fn, url) == <<url.scheme, url.host, url.port>>

(* a pool class and a key function are registered for the scheme *)
SchemeKnown(sch) ==
    sch \in DOMAIN pool_classes_by_scheme /\ sch \in DOMAIN key_fn_by_scheme

(* a variant that serves a scheme it does not know as "http" *)
SchemeOrHttp(sch) == IF SchemeKnown(sch) THEN sch ELSE "http"

(* the scheme a URL is dispatched under, "" when the scheme is not supported *)
SchemeFor(sch) == IF SchemeKnown(sch) THEN sch ELSE ""

(* calling a pool class as the manager does: cls(host, port, **connection_pool_kw) *)
MakePool(cls, host, port, kw) ==
    IF cls = "UnixHostHTTPConnectionPool"
    THEN UnixHostHTTPConnectionPool(host, port, [connect |-> kw.timeout, read |-> kw.timeout],
                                    [socket_options |-> None, unexpected |-> FALSE])
    ELSE IF cls = "UnixHTTPConnectionPool"
    THEN UnixHTTPConnectionPool(cls, host, [connect |-> kw.timeout, read |-> kw.timeout],
                                [socket_options |-> None, unexpected |-> FALSE])
    ELSE [cls |-> cls, socket_path |-> <<>>, host |-> host,
          timeout |-> [connect |-> kw.timeout, read |-> kw.timeout],
          conn_kw |-> [socket_options |-> None, unexpected |-> FALSE]]

KeyIndex(key) == {i \in 1..Len(pools) : pools[i].key = key}

(* the request on the pool: an idle connection is reused, else the pool makes
   one (_new_conn counts it) and its socket is opened; the connection goes back
   to the pool afterwards *)
UrlOpen(p) ==
    IF p.idle > 0 THEN p
    ELSE [p EXCEPT !.num_connections = @ + 1, !.sockets = @ + 1, !.idle = 1]

Request(url) ==
    /\ mgr_pc = "ready"
    /\ nreq < MaxRequests
    /\ nreq' = nreq + 1
    /\ LET sch == SchemeFor(url.scheme) IN
       IF sch = ""
       THEN /\ last' = [scheme |-> url.scheme, host |-> url.host, port |-> url.port,
                        result |-> "UnsupportedScheme", pool |-> 0, created |-> FALSE]
            /\ UNCHANGED <<pools, mpool>>
       ELSE LET key == PoolKey(key_fn_by_scheme[sch], [url EXCEPT !.scheme = sch])
                found == KeyIndex(key)
            IN  IF found # {}
                THEN LET i == CHOOSE j \in found : TRUE
                         id == pools[i].pool
                     IN  /\ pools' = SubSeq(pools, 1, i - 1)
                                         \o SubSeq(pools, i + 1, Len(pools))
                                         \o <<pools[i]>>
                         /\ mpool' = [mpool EXCEPT ![id] = UrlOpen(@)]
                         /\ last' = [scheme |-> url.scheme, host |-> url.host,
                                     port |-> url.port, result |-> "response",
                                     pool |-> id, created |-> FALSE]
                ELSE LET id == Len(mpool) + 1
                         obj == MakePool(pool_classes_by_scheme[sch], url.host, url.port,
                                         mgr.connection_pool_kw)
                         new == [obj |-> obj, num_connections |-> 0, sockets |-> 0,
                                 idle |-> 0]
                         all == Append(pools, [key |-> key, pool |-> id])
                     IN  /\ pools' = IF Len(all) > mgr.num_pools THEN Tail(all) ELSE all
                         /\ mpool' = Append(mpool, UrlOpen(new))
                         /\ last' = [scheme |-> url.scheme, host |-> url.host,
                                     port |-> url.port, result |-> "response",
                                     pool |-> id, created |-> TRUE]
    /\ UNCHANGED <<mgr_args, mgr_pc, mgr, pool_classes_by_scheme, key_fn_by_scheme>>
    /\ UNCHANGED <<poolVars, openVars>>

PoolInit ==
    /\ pool = NoPool
    /\ num_connections = 0
    /\ nthreads \in Threads
    /\ pc = [t \in Threads |-> "start"]
    /\ tmp = [t \in Threads |-> 0]
    /\ ret = [t \in Threads |-> 0]
    /\ log = <<>>
    /\ conns = <<>>
    /\ str_out = <<>>
    /\ pool_args = NoArgs

OpenIdle ==
    /\ socks = <<>>
    /\ opc = "idle"
    /\ ocur = 0
    /\ oresult = "none"
    /\ ohist = <<>>

NoManager ==
    /\ mgr_args = [num_pools |-> 1, headers |-> None, connection_pool_kw |-> NoKw]
    /\ MgrNew

(* one fixed environment for the runs that open no socket *)
NoEnv ==
    /\ fs = [p \in SomePaths |-> "listening"]
    /\ gdt = None

vars == <<poolVars, openVars, mgrVars>>

PoolNext ==
    \/ NewUnixPool(SomePaths)
    \/ NewUnixHostPool(SomePaths)
    \/ \E t \in Threads : NewConnLoad(t)
    \/ \E t \in Threads : NewConnStore(t)
    \/ \E t \in Threads : NewConnLog(t)
    \/ \E t \in Threads : NewConnReturn(t)

(* Concurrent callers of pool._new_conn() *)
ThreadsInit == PoolInit /\ OpenIdle /\ NoEnv /\ NoManager

SpecPool == ThreadsInit /\ [][PoolNext]_vars

(* Opening a connection: one caller, a connection made either directly or by a
   pool, every environment at the first path *)
Env ==
    /\ fs \in [SomePaths -> {"listening", "missing", "refused", "denied", "slow"}]
    /\ fs[<<"/", "b">>] \in {"listening", "missing"}
    /\ gdt \in {None, "5"}

ConnInit == PoolInit /\ OpenIdle /\ Env /\ NoManager /\ nthreads = 1

ConnNext ==
    \/ conns = <<>> /\ NewUnixPool(SomePaths)
    \/ conns = <<>> /\ NewUnixHostPool(SomePaths)
    \/ NewConnection
    \/ \E t \in Threads : NewConnLoad(t)
    \/ \E t \in Threads : NewConnStore(t)
    \/ \E t \in Threads : NewConnLog(t)
    \/ \E t \in Threads : NewConnReturn(t)
    \/ OpenSocket
    \/ OpenSetOptions
    \/ OpenSetTimeout
    \/ OpenConnect
    \/ OpenEnd
    \/ Collect

SpecConn == ConnInit /\ [][ConnNext]_vars

(* A manager: its construction, then requests to URLs of every scheme *)
MgrInit ==
    /\ PoolInit /\ OpenIdle /\ NoEnv /\ nthreads = 1
    /\ mgr_args \in [num_pools : 1..MaxPools, headers : {None, "headers"},
                      connection_pool_kw : {NoKw, [timeout |-> "5"]}]
    /\ MgrNew

MgrNext ==
    \/ MgrSuperInit
    \/ MgrRegisterPoolClass
    \/ MgrRegisterKeyFn
    \/ \E url \in Urls : Request(url)

SpecMgr == MgrInit /\ [][MgrNext]_vars

(* Construction and str() of a pool, over every path of at most MaxLen characters *)
StrInit == PoolInit /\ OpenIdle /\ NoEnv /\ NoManager /\ nthreads = 1

StrNext ==
    \/ NewUnixPool(AllPaths)
    \/ NewUnixHostPool(AllPaths)
    \/ PoolStr

SpecStr == StrInit /\ [][StrNext]_vars

-----------------------------------------------------------------------------
(* Properties *)

AllDone == pool.cls # "none" /\ \A t \in 1..nthreads : pc[t] = "done"
SocketPathEq == <<"(", "s", "o", "c", "k", "e", "t", "_", "p", "a", "t", "h", "=">>

(* C1: when each of N concurrent callers has called pool._new_conn() once,
   num_connections is its initial value (0) plus N: no update is lost. *)
C1_NoLostUpdate == AllDone => num_connections = nthreads

(* C2: str(pool) is the class name, "(socket_path=", the path verbatim, ")". *)
C2_StrVerbatim ==
    str_out # <<>> =>
        str_out = Name(pool.cls) \o SocketPathEq \o pool.socket_path \o <<")">>

(* Reading a Python string literal back: the body between the quotes is well
   formed when it holds no bare quote q, no bare newline, and every backslash
   starts one of the escapes for a backslash, a quote or a newline; Unescape
   gives the str it denotes. *)
RECURSIVE WellFormed(_, _)
WellFormed(body, q) ==
    IF body = <<>> THEN TRUE
    ELSE IF Head(body) = "\\"
         THEN /\ Len(body) >= 2
              /\ body[2] \in {"\\", "'", "\"", "n"}
              /\ WellFormed(SubSeq(body, 3, Len(body)), q)
         ELSE /\ Head(body) \notin {q, "\n"}
              /\ WellFormed(Tail(body), q)

RECURSIVE Unescape(_)
Unescape(body) ==
    IF body = <<>> THEN <<>>
    ELSE IF Head(body) = "\\"
         THEN <<IF body[2] = "n" THEN "\n" ELSE body[2]>>
              \o Unescape(SubSeq(body, 3, Len(body)))
         ELSE <<Head(body)>> \o Unescape(Tail(body))

(* C2, amended: str(pool) is the class name, "(socket_path=", a Python string
   literal of the path (quoted, with the quote, backslashes and newlines
   escaped) and ")": reading the literal back gives the path. *)
C2_StrIsLiteral ==
    str_out # <<>> =>
        LET prefix == Name(pool.cls) \o SocketPathEq
            n == Len(str_out)
            lit == SubSeq(str_out, Len(prefix) + 1, n - 1)
            body == SubSeq(lit, 2, Len(lit) - 1)
        IN  /\ n >= Len(prefix) + 3
            /\ SubSeq(str_out, 1, Len(prefix)) = prefix
            /\ str_out[n] = ")"
            /\ lit[1] \in {"'", "\""}
            /\ lit[Len(lit)] = lit[1]
            /\ WellFormed(body, lit[1])
            /\ Unescape(body) = pool.socket_path

C2_Witness ==
    /\ str_out # <<>>
    /\ pool.cls = "UnixHostHTTPConnectionPool"
    /\ Contains(pool.socket_path, "'")
    /\ Contains(pool.socket_path, "\"")
    /\ Contains(pool.socket_path, "\\")

(* C3: once UnixHTTPPoolManager() has returned, key_fn_by_scheme["http+unix"]
   is the function object of key_fn_by_scheme["http"] and
   pool_classes_by_scheme["http+unix"] is UnixHostHTTPConnectionPool. *)
C3_Registered ==
    mgr_pc = "ready" =>
        /\ key_fn_by_scheme["http+unix"] = key_fn_by_scheme["http"]
        /\ key_fn_by_scheme["http+unix"].id = key_fn_by_scheme["http"].id
        /\ pool_classes_by_scheme["http+unix"] = "UnixHostHTTPConnectionPool"

C3_Witness ==
    /\ mgr_pc = "ready"
    /\ mgr_args.num_pools = 2
    /\ mgr_args.headers # None
    /\ mgr_args.connection_pool_kw # NoKw
    /\ nreq >= 2

(* C4: a request whose scheme has no pool class or no key function ends with
   UnsupportedScheme, and the step creates no pool, counts no connection and
   opens no socket. *)
C4_UnsupportedScheme ==
    [][(nreq' = nreq + 1
          /\ ~(last'.scheme \in DOMAIN pool_classes_by_scheme
                 /\ last'.scheme \in DOMAIN key_fn_by_scheme))
       => /\ last'.result = "UnsupportedScheme"
          /\ pools' = pools
          /\ mpool' = mpool]_vars

C4_Witness ==
    /\ last.result = "UnsupportedScheme"
    /\ last.scheme = "ftp"
    /\ Len(mpool) >= 1
    /\ \A i \in 1..Len(mpool) : mpool[i].num_connections = 1 /\ mpool[i].sockets = 1

(* C5: a UnixHostHTTPConnectionPool built with host h and any port has
   socket_path h, its connections have socket_path h, and they call connect
   with h. *)
C5_PortIgnored ==
    pool.cls = "UnixHostHTTPConnectionPool" =>
        /\ pool.socket_path = pool_args.host
        /\ \A i \in 1..Len(conns) : conns[i].socket_path = pool_args.host
        /\ \A k \in 1..Len(socks) : socks[k].addr \in {<<>>, pool_args.host}
        /\ \A k \in 1..Len(socks) : socks[k].peer \in {<<>>, pool_args.host}

C5_Witness ==
    /\ pool.cls = "UnixHostHTTPConnectionPool"
    /\ pool_args.port = "81"
    /\ socks # <<>>
    /\ socks[1].peer = pool_args.host
    /\ opc = "returned"

(* C6: after a failed _new_conn() the socket that call created is closed. *)
C6_ClosedOnFailure ==
    \A k \in 1..Len(socks) : socks[k].ref = "garbage" => socks[k].state = "closed"

(* C7: a connect that exceeds an explicitly configured timeout raises
   TimeoutError; a missing, refusing or forbidden path raises a connection
   failure; neither is ever reported as the other. *)
C7_TimeoutDistinct ==
    (opc = "raised" /\ ohist[Len(ohist)] = "connect") =>
        LET c == conns[ocur]
            what == What(c.socket_path)
        IN  /\ (what = "slow" /\ c.timeout = "5") => oresult = "TimeoutError"
            /\ what \in {"missing", "refused", "denied"} => oresult \in ConnectFailures
            /\ oresult = "TimeoutError" => what = "slow"
            /\ oresult \in ConnectFailures => what # "slow"

C7_Witness ==
    /\ opc = "raised"
    /\ oresult = "TimeoutError"
    /\ conns[ocur].timeout = "5"
    /\ gdt = None

LivePool(i) == mpool[pools[i].pool].obj

(* C8: no two pools the manager holds at the same time have the same socket
   path. *)
C8_OnePoolPerPath ==
    \A i, j \in 1..Len(pools) :
        (i # j /\ LivePool(i).cls = "UnixHostHTTPConnectionPool"
               /\ LivePool(j).cls = "UnixHostHTTPConnectionPool")
        => LivePool(i).socket_path # LivePool(j).socket_path

(* C8, amended: no two pools the manager holds at the same time have the same
   key (scheme, host, port), and the socket path of an "http+unix" pool is the
   host of its key: pools of one socket path differ in the port of the URL. *)
C8_OnePoolPerKey ==
    /\ \A i, j \in 1..Len(pools) : i # j => pools[i].key # pools[j].key
    /\ \A i \in 1..Len(pools) :
          pools[i].key[1] = "http+unix" =>
              /\ LivePool(i).cls = "UnixHostHTTPConnectionPool"
              /\ LivePool(i).socket_path = pools[i].key[2]

C8_Witness ==
    \E i, j \in 1..Len(pools) :
        /\ i # j
        /\ pools[i].key[1] = "http+unix"
        /\ pools[j].key[1] = "http+unix"
        /\ LivePool(i).socket_path = LivePool(j).socket_path
        /\ pools[i].key[3] # pools[j].key[3]

(* C9: a request creates a pool exactly when no live pool has its key, a
   request whose key has a live pool is served by that pool, the pool that
   served the request is live afterwards, and the manager never holds more
   than num_pools pools. *)
C9_LazyCreate ==
    [][/\ Len(pools') <= mgr_args.num_pools
       /\ (nreq' = nreq + 1 /\ last'.result # "UnsupportedScheme") =>
             LET key == <<last'.scheme, last'.host, last'.port>>
                 found == KeyIndex(key)
             IN  /\ found # {} =>
                       /\ Len(mpool') = Len(mpool)
                       /\ ~last'.created
                       /\ \E i \in found : last'.pool = pools[i].pool
                 /\ found = {} =>
                       /\ Len(mpool') = Len(mpool) + 1
                       /\ last'.created
                       /\ last'.pool = Len(mpool')
                 /\ \E i \in 1..Len(pools') :
                       pools'[i].key = key /\ pools'[i].pool = last'.pool]_vars

C9_Witness ==
    /\ last.result = "response"
    /\ ~last.created
    /\ last.scheme = "http+unix"
    /\ Len(mpool) > Len(pools)
    /\ Len(pools) = mgr_args.num_pools

(* C10: two threads are never both between the read and the write of
   num_connections in pool._new_conn(). *)
C10_WritesSerialized ==
    \A s, t \in Threads : s # t => ~(pc[s] = "loaded" /\ pc[t] = "loaded")

(* C11: the counter values of the trace events of one pool are strictly
   increasing in emission order: no two events carry the same value. *)
C11_EventsIncreasing ==
    \A i, j \in 1..Len(log) : i < j => log[i].count < log[j].count

(* the connections the pool has handed out: the calls that returned one *)
HandedOut == Cardinality({t \in Threads : pc[t] = "done"})
(* no call of pool._new_conn() is under way *)
Quiescent == \A t \in Threads : pc[t] \in {"start", "done", "raised"}

(* C12: num_connections is never lower than in an earlier state, and, between
   calls, never higher than the number of connections the pool has handed
   out, also after a call in which constructing the connection raised. *)
C12_CounterMonotoneBounded ==
    /\ [][num_connections' >= num_connections]_vars
    /\ [](Quiescent => num_connections <= HandedOut)

(* the place of a socket call in the order create, options, timeout, connect *)
Rank(call) ==
    CASE call = "socket" -> 0
      [] call = "setsockopt" -> 1
      [] call = "settimeout" -> 2
      [] call = "connect" -> 3

Count(h, call) == Cardinality({i \in 1..Len(h) : h[i] = call})

(* C13: a _new_conn() call of a connection creates the socket first, then
   applies the socket options, then the timeout, then connects; at the connect
   every configured option has been set, and settimeout has been called if and
   only if the timeout is not the global-default sentinel, None and 0 included. *)
C13_OpenOrder ==
    ohist # <<>> =>
        LET c == conns[ocur]
            sock == socks[Len(socks)]
        IN  /\ ohist[1] = "socket"
            /\ sock.family = "AF_UNIX" /\ sock.type = "SOCK_STREAM"
            /\ \A i, j \in 1..Len(ohist) : i < j => Rank(ohist[i]) <= Rank(ohist[j])
            /\ Count(ohist, "socket") = 1
            /\ Count(ohist, "settimeout") <= 1
            /\ Count(ohist, "connect") >= 1 =>
                  /\ Count(ohist, "setsockopt")
                        = (IF c.socket_options = None THEN 0 ELSE Len(c.socket_options))
                  /\ sock.options
                        = (IF c.socket_options = None THEN <<>> ELSE c.socket_options)
                  /\ Count(ohist, "settimeout") = 1
                        <=> c.timeout # SOCKET_GLOBAL_DEFAULT_TIMEOUT
                  /\ sock.timeout
                        = (IF c.timeout = SOCKET_GLOBAL_DEFAULT_TIMEOUT THEN gdt ELSE c.timeout)
                  /\ sock.addr = c.socket_path

C13_Witness ==
    /\ opc = "returned"
    /\ conns[ocur].timeout = "0"
    /\ conns[ocur].socket_options # None
    /\ Len(conns[ocur].socket_options) = 1
    /\ gdt = "5"
    /\ ohist = <<"socket", "setsockopt", "settimeout", "connect">>

(* C14: constructing a connection, constructing a pool and pool._new_conn()
   open no socket: no connection holds a socket handle, the steps that
   construct leave the sockets as they are, and a socket appears only in the
   first step of _new_conn() of a connection. *)
C14_SocketOnlyOnOpen ==
    /\ [](\A i \in 1..Len(conns) : conns[i].sock = None)
    /\ [](socks # <<>> => ohist # <<>>)
    /\ [][(conns' # conns \/ pool' # pool \/ pc' # pc) => socks' = socks]_vars
    /\ [][Len(socks') > Len(socks) =>
             /\ opc = "idle" /\ opc' = "created"
             /\ ocur' \in 1..Len(conns)
             /\ Len(socks') = Len(socks) + 1]_vars

C14_Witness ==
    /\ pool.cls # "none"
    /\ pc[1] = "done"
    /\ Len(conns) = 1
    /\ conns[1].sock = None
    /\ socks = <<>>
    /\ opc = "idle"

(* C15: once UnixHTTPPoolManager() has returned, "http+unix" is in both
   registries and stays there; requests are dispatched only then, each sees
   the scheme in both registries, and no step after the construction changes
   pool_classes_by_scheme or key_fn_by_scheme. *)
C15_RegistriesStable ==
    /\ [](mgr_pc = "ready" =>
             /\ scheme \in DOMAIN pool_classes_by_scheme
             /\ scheme \in DOMAIN key_fn_by_scheme)
    /\ [](nreq > 0 => mgr_pc = "ready")
    /\ [][nreq' # nreq =>
             (scheme \in DOMAIN pool_classes_by_scheme
                 <=> scheme \in DOMAIN key_fn_by_scheme)]_vars
    /\ [][mgr_pc = "ready" =>
             /\ mgr_pc' = "ready"
             /\ pool_classes_by_scheme' = pool_classes_by_scheme
             /\ key_fn_by_scheme' = key_fn_by_scheme]_vars

C15_Witness ==
    /\ mgr_pc = "ready"
    /\ nreq >= 2
    /\ Len(mpool) >= 2
    /\ last.scheme = "http+unix"
    /\ last.result = "response"
    /\ last.created

(* C16: every connection a pool's _new_conn() has returned carries the pool's
   socket_path, which is the path the pool was constructed with, and the
   connect timeout of the pool's timeout policy; no step changes a constructed
   pool, so all its connections target that one path. *)
C16_BoundToPoolPath ==
    /\ [](\A t \in Threads : pc[t] = "done" =>
             /\ ret[t] \in 1..Len(conns)
             /\ conns[ret[t]].socket_path = pool.socket_path
             /\ conns[ret[t]].socket_path = pool_args.host
             /\ conns[ret[t]].timeout = pool.timeout.connect)
    /\ [](\A i, j \in 1..Len(conns) : conns[i].socket_path = conns[j].socket_path)
    /\ [][pool.cls # "none" => pool' = pool /\ pool_args' = pool_args]_vars

C16_Witness ==
    /\ pool.cls = "UnixHostHTTPConnectionPool"
    /\ pool_args.port # "absent"
    /\ pool.timeout.connect = "5"
    /\ \A t \in Threads : pc[t] = "done"
    /\ ret[1] # ret[2]
    /\ Len(conns) = 2

(* C17, as stated: a _new_conn() call that has raised has called connect
   exactly once. *)
C17_ExactlyOneAttempt ==
    opc = "raised" => Count(ohist, "connect") = 1

(* C17, amended: a _new_conn() call calls connect at most once, and not at all
   when setsockopt or settimeout has raised before; when connect fails the call
   raises connect's own exception at once, creates no further socket, and
   leaves the pool's num_connections, the connections and the manager's
   registries as they were. *)
C17_NoRetry ==
    /\ [](Count(ohist, "connect") <= 1)
    /\ [](opc = "raised" =>
             /\ oresult \notin {"none", "socket"}
             /\ IF ohist[Len(ohist)] = "connect"
                THEN /\ Count(ohist, "connect") = 1
                     /\ oresult = ConnectError(What(conns[ocur].socket_path),
                                               socks[Len(socks)].timeout)
                ELSE /\ Count(ohist, "connect") = 0
                     /\ oresult \in {"OSError", "ValueError"})
    /\ [][(opc' = "raised" /\ opc # "raised") =>
             /\ Len(socks') = Len(socks)
             /\ num_connections' = num_connections
             /\ conns' = conns
             /\ pool' = pool
             /\ pool_classes_by_scheme' = pool_classes_by_scheme
             /\ key_fn_by_scheme' = key_fn_by_scheme]_vars

C17_Witness ==
    /\ pool.cls # "none"
    /\ num_connections = 1
    /\ opc = "raised"
    /\ oresult = "ConnectionRefusedError"
    /\ Count(ohist, "connect") = 1
    /\ Len(socks) = 1

====
